---- MODULE Spec2Model ----
(***************************************************************************)
(* The agent-config watcher of the traffic manager                         *)
(* (cmd/traffic/cmd/manager/internal/mutator/agentconfig/watcher.go):      *)
(* the per-namespace watch tasks, the diff of update, the delivery         *)
(* goroutines of writeToChan, the dispatch loop of Run and the Store       *)
(* operation, together with the API server's ConfigMap they act on; and    *)
(* the watchable map whose tests are internal/watchable.                   *)
(***************************************************************************)
EXTENDS Integers, Sequences, FiniteSets, Bags, TLC

\* ------------------------------------------------------------------ bounds
\* What the environment does in one run: the writes of other clients to the
\* ConfigMaps, the Store calls of other components, the closures of a watch
\* by the API server.
MaxEnv == 2

\* ------------------------------------------------------------ data domains
AllNs == {"ns1", "ns2"}
InjectorKey == "agentInjector"     \* agent.InjectorKey
ConfigMapName == "telepresence-agents"  \* agent.ConfigMap
WKeys == {"w1"}                    \* workload keys of a ConfigMap
Keys == WKeys \cup {InjectorKey}

\* A serialized value that is no agent config.
BadYaml == <<"???">>
\* The serialized injector settings (agentInjectorConfig).
InjectorYaml == <<"namespaced", "true">>

\* agent.Config, the fields this file reads.
Config(name, ns, create) ==
  [AgentName |-> name, WorkloadName |-> name, WorkloadKind |-> "Deployment",
   Namespace |-> ns, Create |-> create]

\* yaml.NewEncoder(&bf).Encode(ac): the document's fields in order; the
\* create field is omitted when false.
encode(ac) ==
  <<"agentName", ac.AgentName, "namespace", ac.Namespace>>
    \o (IF ac.Create THEN <<"create", "true">> ELSE <<>>)

decodable(v) == Len(v) >= 4 /\ v[1] = "agentName" /\ v[3] = "namespace"

decode(v) ==
  Config(v[2], v[4], Len(v) >= 6 /\ v[5] = "create" /\ v[6] = "true")

\* ------------------------------------------------------------------- maps
\* map[string]string as a function on the keys present.
EmptyMap == <<>>
Has(m, k) == k \in DOMAIN m
Put(m, k, v) == [x \in (DOMAIN m) \cup {k} |-> IF x = k THEN v ELSE m[x]]
Remove(m, k) == [x \in (DOMAIN m) \ {k} |-> m[x]]

\* The sequences that list every element of S once.
Perms(S) ==
  {f \in [1..Cardinality(S) -> S] : \A i, j \in 1..Cardinality(S) : f[i] = f[j] => i = j}

VARIABLES
  namespaces,  \* c.namespaces
  data,        \* c.data: namespace -> key -> serialized value
  started,     \* c.modCh and c.delCh are made (Start has run)
  deliv,       \* the running writeToChan goroutines, a bag of [ch, es]
  wpc,         \* position of each namespace's watch task (do)
  feed,        \* each task's watch.Interface: [open, q], the watches it has
               \* opened (n) and the events it has handled (h)
  rpc,         \* position of Run
  cancelled,   \* ctx.Done() is closed
  st,          \* the Store call of each caller, when one is in progress
  last,        \* what Run did for the entry it received last
  pre,         \* the cache entries Store wrote that update has not replaced since
  remote,      \* the ConfigMap of each namespace in the API server
  budget,      \* what the environment may still do
  mp,          \* the watchable map: its content, and whether it is closed
  subs,        \* the subscriptions of the watchable map
  mops         \* the calls the users of the watchable map may still make

\* The configWatcher and its cluster.
wvars == <<namespaces, data, started, deliv, wpc, feed, rpc, cancelled, st, last,
           pre, remote, budget>>

\* The watchable map.
mvars == <<mp, subs, mops>>

vars == <<wvars, mvars>>

Callers == {"run", "api"}

\* type entry struct
Entry(name, ns, value, by, own) ==
  [name |-> name, namespace |-> ns, value |-> value, by |-> by, own |-> own]

NoRemote == [exists |-> FALSE, data |-> EmptyMap, rv |-> 0, by |-> "none", wkey |-> "none"]
NoStore ==
  [pc |-> "idle", ac |-> Config("none", "none", FALSE), upd |-> FALSE, create |-> FALSE,
   cm |-> EmptyMap, rv |-> 0, ops |-> <<>>, ret |-> "none", eq |-> FALSE,
   wrote |-> <<>>, again |-> FALSE]
NoEntry == Entry("none", "none", <<>>, "none", FALSE)
NoLast ==
  [kind |-> "none", e |-> NoEntry, ok |-> FALSE, create |-> FALSE, patches |-> <<>>,
   gen |-> "none", store |-> FALSE, late |-> FALSE, flip |-> FALSE, seq |-> 0,
   perr |-> FALSE, pf |-> FALSE]
NoFeed == [open |-> FALSE, q |-> <<>>, n |-> 0, h |-> 0]

\* The values other clients write under a key of a namespace's ConfigMap.
ValuesOf(ns, k) ==
  IF k = InjectorKey THEN {InjectorYaml}
  ELSE {encode(Config(k, ns, TRUE)), encode(Config(k, ns, FALSE)), BadYaml}

\* ------------------------------------------------------ the watchable map
MaxMapOps == 2     \* calls on the watchable map in one run

MapKeys == {"a", "b"}
MapVals == {"A", "ignoreme"}        \* the TESTFIELD of a value
Subs == {"s1", "s2"}
Preds == {"all", "subset"}

\* The predicate of a subscription: Subscribe takes every entry, the subset
\* of the tests the entries whose field is not "ignoreme".
Matches(pred, k, v) == pred = "all" \/ v # "ignoreme"

\* LoadAll restricted to the entries a predicate matches: a snapshot.
Snapshot(m, pred) == [k \in {x \in DOMAIN m : Matches(pred, x, m[x])} |-> m[k]]

NoSub ==
  [state |-> "none", pred |-> "all", dirty |-> FALSE, done |-> FALSE, fresh |-> FALSE,
   atsub |-> EmptyMap, nread |-> 0, snap |-> EmptyMap, ok |-> FALSE,
   nw |-> 0, chg |-> FALSE, got |-> 0]

\* var m watchable.MAPTYPE: the zero map, open and empty.
MapInit ==
  /\ mp = [val |-> EmptyMap, closed |-> FALSE]
  /\ subs = [s \in Subs |-> NoSub]
  /\ mops = MaxMapOps

\* Whether a write that makes the content m changes what a subscription with
\* the predicate sees.
Notifies(m, pred) == Snapshot(m, pred) # Snapshot(mp.val, pred)

\* The write marks nothing.
MarksNothing(m, pred, mark) == FALSE

\* Whether a write that makes the content m marks a subscription dirty: it does
\* when the subscription's snapshot changes, and may (mark) when not.
Marks(m, pred, mark) == Notifies(m, pred) \/ mark

\* A write that changes the content to m: every live subscription it marks
\* becomes dirty, and none is after Close. nw counts the writes since the
\* subscriber's last read, chg tells whether one of them changed its snapshot,
\* got is the number of writes the snapshot read last stands for.
Written(m, mark) ==
  /\ mp' = [mp EXCEPT !.val = m]
  /\ subs' = [s \in Subs |->
       IF subs[s].state # "open" THEN subs[s]
       ELSE [subs[s] EXCEPT
               !.dirty = @ \/ Marks(m, subs[s].pred, mark),
               !.fresh = FALSE,
               !.nw = @ + 1,
               !.chg = @ \/ Notifies(m, subs[s].pred)]]

\* Store(key, value): upsert; a no-op after Close.
MapStore(k, v, mark) ==
  /\ mops > 0
  /\ mops' = mops - 1
  /\ IF mp.closed THEN UNCHANGED <<mp, subs>>
     ELSE Written(Put(mp.val, k, v), mark)
  /\ UNCHANGED wvars

\* Delete(key) and LoadAndDelete(key): the key is removed.
MapDelete(k) ==
  /\ mops > 0
  /\ mops' = mops - 1
  /\ IF mp.closed THEN UNCHANGED <<mp, subs>>
     ELSE Written(Remove(mp.val, k), FALSE)
  /\ UNCHANGED wvars

\* LoadOrStore(key, value): the value is stored when the key has none.
MapLoadOrStore(k, v) ==
  /\ mops > 0
  /\ mops' = mops - 1
  /\ IF mp.closed \/ Has(mp.val, k) THEN UNCHANGED <<mp, subs>>
     ELSE Written(Put(mp.val, k, v), FALSE)
  /\ UNCHANGED wvars

SubscribedIdle(pred) ==
  [NoSub EXCEPT !.state = "open", !.pred = pred, !.fresh = TRUE,
                !.atsub = Snapshot(mp.val, pred)]

\* What Subscribe registers on an open map: the first snapshot is enqueued.
Subscribed(pred) ==
  [NoSub EXCEPT !.state = "open", !.pred = pred, !.dirty = TRUE, !.fresh = TRUE,
                !.atsub = Snapshot(mp.val, pred)]

\* Subscribe(ctx) and SubscribeSubset(ctx, pred): on a closed map the channel
\* returned is closed already.
MapSubscribe(s, pred) ==
  /\ subs[s].state = "none"
  /\ subs' = [subs EXCEPT ![s] =
       IF mp.closed THEN [NoSub EXCEPT !.state = "closed", !.pred = pred]
       ELSE Subscribed(pred)]
  /\ UNCHANGED <<mp, mops, wvars>>

\* The reader receives from the subscription's channel: the pending snapshot,
\* which is the content now, or the end of the stream.
MapRead(s) ==
  /\ \/ subs[s].state = "open" /\ subs[s].dirty
     \/ subs[s].state = "closed" /\ subs[s].ok
     \/ subs[s].state = "closed" /\ subs[s].nread = 0
  /\ subs' = [subs EXCEPT ![s] =
       IF subs[s].state = "open"
       THEN [@ EXCEPT !.dirty = FALSE, !.nread = @ + 1,
                      !.snap = Snapshot(mp.val, subs[s].pred), !.ok = TRUE,
                      !.nw = 0, !.chg = FALSE, !.got = subs[s].nw]
       ELSE [@ EXCEPT !.nread = 1, !.snap = EmptyMap, !.ok = FALSE]]
  /\ UNCHANGED <<mp, mops, wvars>>

\* The lifetime token of a subscription is cancelled.
MapCancel(s) ==
  /\ subs[s].state = "open" /\ ~subs[s].done
  /\ subs' = [subs EXCEPT ![s].done = TRUE]
  /\ UNCHANGED <<mp, mops, wvars>>

\* The subscription sees its token cancelled and closes its channel; what was
\* pending is dropped.
MapSubEnds(s) ==
  /\ subs[s].state = "open" /\ subs[s].done
  /\ subs' = [subs EXCEPT ![s].state = "closed", ![s].dirty = FALSE]
  /\ UNCHANGED <<mp, mops, wvars>>

\* Close() that leaves the subscriptions as they are.
MapCloseKeepsSubs ==
  /\ ~mp.closed
  /\ mp' = [mp EXCEPT !.closed = TRUE]
  /\ UNCHANGED <<subs, mops, wvars>>

\* Close(): the map is closed for good, and the channel of every subscription.
MapClose ==
  /\ ~mp.closed
  /\ mp' = [mp EXCEPT !.closed = TRUE]
  /\ subs' = [s \in Subs |->
       IF subs[s].state = "open" THEN [subs[s] EXCEPT !.state = "closed", !.dirty = FALSE]
       ELSE subs[s]]
  /\ UNCHANGED <<mops, wvars>>

\* func NewWatcher(name, namespaces...): the fields of the configWatcher,
\* nothing started, no ConfigMap in the cluster.
NewWatcher(nss) ==
  /\ namespaces = nss
  /\ data = EmptyMap
  /\ started = FALSE
  /\ deliv = EmptyBag
  /\ wpc = [ns \in namespaces |-> "idle"]
  /\ feed = [ns \in namespaces |-> NoFeed]
  /\ rpc = "init"
  /\ cancelled = FALSE
  /\ st = [c \in Callers |-> NoStore]
  /\ last = NoLast
  /\ pre = {}
  /\ remote = [ns \in AllNs |-> NoRemote]
  /\ budget = MaxEnv
  /\ MapInit

\* A watcher of one namespace.
Init == NewWatcher({"ns1"})

\* A watcher of two namespaces.
InitNs == NewWatcher(AllNs)

\* ------------------------------------------------------- the API server
\* A watch event: its type and the ConfigMap it carries.
Event(type, ns, r) ==
  [type |-> type, name |-> ConfigMapName, namespace |-> ns, data |-> r.data,
   by |-> r.by, wkey |-> r.wkey]

\* The API server sends the event on the namespace's open watch.
Emit(ns, type, r) ==
  IF ns \in DOMAIN feed /\ feed[ns].open
  THEN [feed EXCEPT ![ns].q = Append(@, Event(type, ns, r))]
  ELSE feed

\* Another client sets one key of the ConfigMap, creating it when absent.
ExtSet(ns, k, v) ==
  /\ budget > 0
  /\ ~(remote[ns].exists /\ Has(remote[ns].data, k) /\ remote[ns].data[k] = v)
  /\ LET r == [exists |-> TRUE, data |-> Put(remote[ns].data, k, v),
               rv |-> remote[ns].rv + 1, by |-> "ext", wkey |-> k]
     IN /\ remote' = [remote EXCEPT ![ns] = r]
        /\ feed' = Emit(ns, IF remote[ns].exists THEN "MODIFIED" ELSE "ADDED", r)
  /\ budget' = budget - 1
  /\ UNCHANGED <<mvars, namespaces, data, started, deliv, wpc, rpc, cancelled, st, last, pre>>

\* Another client removes one key of the ConfigMap.
ExtRemove(ns, k) ==
  /\ budget > 0
  /\ remote[ns].exists /\ Has(remote[ns].data, k)
  /\ LET r == [exists |-> TRUE, data |-> Remove(remote[ns].data, k),
               rv |-> remote[ns].rv + 1, by |-> "ext", wkey |-> k]
     IN /\ remote' = [remote EXCEPT ![ns] = r]
        /\ feed' = Emit(ns, "MODIFIED", r)
  /\ budget' = budget - 1
  /\ UNCHANGED <<mvars, namespaces, data, started, deliv, wpc, rpc, cancelled, st, last, pre>>

\* Another client deletes the ConfigMap; the event carries its last content.
ExtDelete(ns) ==
  /\ budget > 0
  /\ remote[ns].exists
  /\ LET r == [remote[ns] EXCEPT !.by = "ext", !.wkey = "none"]
     IN /\ remote' = [remote EXCEPT ![ns] = [NoRemote EXCEPT !.rv = remote[ns].rv + 1]]
        /\ feed' = Emit(ns, "DELETED", r)
  /\ budget' = budget - 1
  /\ UNCHANGED <<mvars, namespaces, data, started, deliv, wpc, rpc, cancelled, st, last, pre>>

\* The API server closes a watch connection.
FeedClose(ns) ==
  /\ budget > 0
  /\ feed[ns].open
  /\ feed' = [feed EXCEPT ![ns].open = FALSE]
  /\ budget' = budget - 1
  /\ UNCHANGED <<mvars, namespaces, data, started, deliv, wpc, rpc, cancelled, st, last, pre, remote>>

\* The lifetime's cancellation signal fires.
Cancel ==
  /\ ~cancelled
  /\ cancelled' = TRUE
  /\ UNCHANGED <<mvars, namespaces, data, started, deliv, wpc, feed, rpc, st, last, pre, remote, budget>>

\* ------------------------------------------------------ the watch tasks
\* writeToChan without its test of the name.
SkipNothing(es) == es

\* func writeToChan, up to the send it blocks in: the entries of the reserved
\* key are skipped without a send.
RECURSIVE SkipInjector(_)
SkipInjector(es) ==
  IF es = <<>> THEN <<>>
  ELSE IF Head(es).name = InjectorKey THEN SkipInjector(Tail(es))
  ELSE es

\* go writeToChan(ctx, es, ch): the goroutine, when it has an entry to send.
\* seq tells which event of its namespace the entries are of.
Spawn(ch, es, seq) ==
  IF SkipInjector(es) = <<>> THEN EmptyBag
  ELSE SetToBag({[ch |-> ch, es |-> SkipInjector(es), seq |-> seq]})

\* The namespace's map of c.data, empty when c.data has none.
Cached(ns) == IF ns \in DOMAIN data THEN data[ns] ELSE EmptyMap

\* func (c *configWatcher) update, the keys of its dels.
DelKeys(old, m) == {k \in DOMAIN old : ~Has(m, k)}

\* Every key of the event's map is a mod.
ModKeysAll(old, m) == DOMAIN m

\* The mods without the keys whose value changed.
ModKeysNewOnly(old, m) == {k \in DOMAIN m : ~Has(old, k)}

\* func (c *configWatcher) update, the keys of its mods.
ModKeys(old, m) == {k \in DOMAIN m : ~Has(old, k) \/ old[k] # m[k]}

\* The map when the keys the event lacks are left in it.
UpdatedKeepsDeleted(old, m) ==
  [k \in (DOMAIN old) \cup (DOMAIN m) |-> IF Has(m, k) THEN m[k] ELSE old[k]]

\* func (c *configWatcher) update, the namespace's map when it unlocks.
Updated(old, m) ==
  LET kept == [k \in (DOMAIN old) \ DelKeys(old, m) |-> old[k]]
  IN [k \in (DOMAIN kept) \cup ModKeys(old, m) |->
        IF k \in ModKeys(old, m) THEN m[k] ELSE kept[k]]

\* func (c *configWatcher) update: the diff against the cache under the lock,
\* then the two goroutines. dord and mord are the orders in which the two
\* range loops visit the keys.
update(ns, m, by, wkey, dord, mord) ==
  LET old == Cached(ns)
      dels == [i \in DOMAIN dord |-> Entry(dord[i], ns, old[dord[i]], by, dord[i] = wkey)]
      mods == [i \in DOMAIN mord |-> Entry(mord[i], ns, m[mord[i]], by, mord[i] = wkey)]
  IN /\ data' = [x \in (DOMAIN data) \cup {ns} |-> IF x = ns THEN Updated(old, m) ELSE data[x]]
     /\ deliv' = deliv (+) Spawn("del", dels, feed[ns].h) (+) Spawn("mod", mods, feed[ns].h)
     /\ pre' = {p \in pre : p.ns # ns \/ p.key \notin DelKeys(old, m) \cup ModKeys(old, m)}

\* func (c *configWatcher) Start, the loop of do: a watch is opened. The API
\* server first sends the ConfigMap as it is, when there is one.
WatchOpen(ns) ==
  /\ wpc[ns] = "loop"
  /\ ~cancelled
  /\ wpc' = [wpc EXCEPT ![ns] = "watching"]
  /\ feed' = [feed EXCEPT ![ns] =
       [open |-> TRUE,
        q |-> IF remote[ns].exists THEN <<Event("ADDED", ns, remote[ns])>> ELSE <<>>,
        n |-> @.n + 1, h |-> @.h]]
  /\ UNCHANGED <<mvars, namespaces, data, started, deliv, rpc, cancelled, st, last, pre, remote, budget>>

\* do: Watch returns an error, the task returns.
WatchOpenFail(ns) ==
  /\ wpc[ns] = "loop"
  /\ ~cancelled
  /\ wpc' = [wpc EXCEPT ![ns] = "failed"]
  /\ UNCHANGED <<mvars, namespaces, data, started, deliv, feed, rpc, cancelled, st, last, pre, remote, budget>>

\* do: ctx.Err() != nil at the head of the loop.
WatchLoopExit(ns) ==
  /\ wpc[ns] = "loop"
  /\ cancelled
  /\ wpc' = [wpc EXCEPT ![ns] = "stopped"]
  /\ UNCHANGED <<mvars, namespaces, data, started, deliv, feed, rpc, cancelled, st, last, pre, remote, budget>>

\* eventHandler: case <-ctx.Done().
WatchCancel(ns) ==
  /\ wpc[ns] = "watching"
  /\ cancelled
  /\ wpc' = [wpc EXCEPT ![ns] = "stopped"]
  /\ UNCHANGED <<mvars, namespaces, data, started, deliv, feed, rpc, cancelled, st, last, pre, remote, budget>>

WatchClosedStops(ns) ==
  /\ wpc[ns] = "watching"
  /\ feed[ns].q = <<>> /\ ~feed[ns].open
  /\ wpc' = [wpc EXCEPT ![ns] = "stopped"]
  /\ UNCHANGED <<mvars, namespaces, data, started, deliv, feed, rpc, cancelled, st, last, pre, remote, budget>>

\* eventHandler: the channel is closed, the watch is restarted.
WatchClosed(ns) ==
  /\ wpc[ns] = "watching"
  /\ feed[ns].q = <<>> /\ ~feed[ns].open
  /\ wpc' = [wpc EXCEPT ![ns] = "loop"]
  /\ UNCHANGED <<mvars, namespaces, data, started, deliv, feed, rpc, cancelled, st, last, pre, remote, budget>>

\* eventHandler: an event is received and handled.
WatchEvent(ns) ==
  /\ wpc[ns] = "watching"
  /\ feed[ns].q # <<>>
  /\ LET ev == Head(feed[ns].q)
         m == IF ev.type = "DELETED" THEN EmptyMap ELSE ev.data
     IN IF ev.type \in {"ADDED", "MODIFIED"} /\ ev.name # ConfigMapName
        THEN UNCHANGED <<data, deliv, pre>>
        ELSE \E dord \in Perms(DelKeys(Cached(ev.namespace), m)) :
             \E mord \in Perms(ModKeys(Cached(ev.namespace), m)) :
               update(ev.namespace, m, ev.by, ev.wkey, dord, mord)
  /\ feed' = [feed EXCEPT ![ns].q = Tail(@), ![ns].h = @ + 1]
  /\ UNCHANGED <<mvars, namespaces, started, wpc, rpc, cancelled, st, last, remote, budget>>

DelivNeverCancels(t) ==
  /\ FALSE
  /\ UNCHANGED vars

\* A goroutine that gives its send up whenever it is not taken.
DelivGivesUp(t) ==
  /\ BagIn(t, deliv)
  /\ deliv' = deliv (-) SetToBag({t})
  /\ UNCHANGED <<mvars, namespaces, data, started, wpc, feed, rpc, cancelled, st, last, pre, remote, budget>>

\* writeToChan: case <-ctx.Done().
DelivCancel(t) ==
  /\ cancelled
  /\ BagIn(t, deliv)
  /\ deliv' = deliv (-) SetToBag({t})
  /\ UNCHANGED <<mvars, namespaces, data, started, wpc, feed, rpc, cancelled, st, last, pre, remote, budget>>

\* func (c *configWatcher) GetInto(key, ns, into): whether the cache has the
\* key, whether its value decodes, and the config decoded.
GetInto(key, ns) ==
  IF ~Has(Cached(ns), key) THEN [found |-> FALSE, err |-> FALSE, into |-> NoStore.ac]
  ELSE IF ~decodable(Cached(ns)[key]) THEN [found |-> FALSE, err |-> TRUE, into |-> NoStore.ac]
  ELSE [found |-> TRUE, err |-> FALSE, into |-> decode(Cached(ns)[key])]

\* ----------------------------------------------------------------- Store
\* Store has returned ret, after the calls ops to the API server. wrote is
\* the key its lock section has written into the cache, again tells that the
\* caller's call before returned an error after writing this key.
Returned(ops, ret, eq) == [NoStore EXCEPT !.ops = ops, !.ret = ret, !.eq = eq]

\* Store returns: Run goes back to its select, another caller is done.
Return(c) == IF c = "run" THEN "select" ELSE rpc

\* Who wrote a version of the ConfigMap.
Writer(c) == IF c = "run" THEN "run" ELSE IF st[c].upd THEN "apiT" ELSE "apiF"

\* Another component calls Store(ctx, ac, updateSnapshot) with a generated
\* config.
ApiStore(ns, k, upd) ==
  /\ budget > 0
  /\ st["api"].pc = "idle"
  /\ st' = [st EXCEPT !["api"] =
       [NoStore EXCEPT !.pc = "get", !.ac = Config(k, ns, FALSE), !.upd = upd,
                       !.again = st["api"].ret = "err" /\ st["api"].wrote = <<ns, k>>]]
  /\ budget' = budget - 1
  /\ UNCHANGED <<mvars, namespaces, data, started, deliv, wpc, feed, rpc, cancelled, last, pre, remote>>

\* Store: api.Get. fails is an error other than not found.
StoreGet(c, fails) ==
  /\ st[c].pc = "get"
  /\ LET ns == st[c].ac.Namespace
         got == [st[c] EXCEPT !.ops = Append(@, "get")]
     IN IF fails
        THEN /\ st' = [st EXCEPT ![c] = Returned(got.ops, "err", FALSE)]
             /\ rpc' = Return(c)
        ELSE /\ st' = [st EXCEPT ![c] =
                  IF remote[ns].exists
                  THEN [got EXCEPT !.pc = "lock", !.cm = remote[ns].data, !.rv = remote[ns].rv]
                  ELSE [got EXCEPT !.pc = "lock", !.create = TRUE]]
             /\ rpc' = rpc
  /\ UNCHANGED <<mvars, namespaces, data, started, deliv, wpc, feed, cancelled, last, pre, remote, budget>>

\* Store: eq, whether the cache holds this very serialization.
StoreEq(ns, name, yml) == ns \in DOMAIN data /\ Has(data[ns], name) /\ data[ns][name] = yml

StoreCacheNotWritten(ns, name, yml, upd) ==
  [x \in (DOMAIN data) \cup {ns} |-> IF x # ns THEN data[x] ELSE Cached(ns)]

\* Store: the cache when the lock is released.
StoreCache(ns, name, yml, upd) ==
  [x \in (DOMAIN data) \cup {ns} |->
     IF x # ns THEN data[x]
     ELSE IF upd /\ ~StoreEq(ns, name, yml) THEN Put(Cached(ns), name, yml)
     ELSE Cached(ns)]

StoreAlwaysWrites(eq) == FALSE

\* Store: if eq { return nil }.
StoreSkips(eq) == eq

\* Store: the section under c.Lock, and the return when eq.
StoreLock(c) ==
  /\ st[c].pc = "lock"
  /\ LET ns == st[c].ac.Namespace
         name == st[c].ac.AgentName
         yml == encode(st[c].ac)
         eq == StoreEq(ns, name, yml)
     IN /\ data' = StoreCache(ns, name, yml, st[c].upd)
        /\ pre' = IF st[c].upd /\ ~eq
                  THEN {p \in pre : p.ns # ns \/ p.key # name}
                         \cup {[ns |-> ns, key |-> name, value |-> yml]}
                  ELSE pre
        /\ st' = [st EXCEPT ![c] =
             IF StoreSkips(eq) THEN [Returned(@.ops, "nil", eq) EXCEPT !.again = st[c].again]
             ELSE [@ EXCEPT !.pc = "write",
                            !.wrote = IF st[c].upd THEN <<ns, name>> ELSE <<>>]]
        /\ rpc' = IF StoreSkips(eq) THEN Return(c) ELSE rpc
  /\ UNCHANGED <<mvars, namespaces, started, deliv, wpc, feed, cancelled, last, remote, budget>>

StoreObjectFresh(create, cm, name, yml) == Put(EmptyMap, name, yml)

\* Store: the ConfigMap that api.Create or api.Update is handed.
StoreObject(create, cm, name, yml) ==
  IF create THEN Put(EmptyMap, name, yml) ELSE Put(cm, name, yml)

\* Store: api.Create or api.Update, and the return. The API server refuses a
\* Create of a ConfigMap that exists and an Update of one that is gone or has
\* another resourceVersion than the one read; fails is any other failure.
StoreWrite(c, fails) ==
  /\ st[c].pc = "write"
  /\ LET ns == st[c].ac.Namespace
         name == st[c].ac.AgentName
         op == IF st[c].create THEN "create" ELSE "update"
         ok == /\ ~fails
               /\ IF st[c].create THEN ~remote[ns].exists
                  ELSE remote[ns].exists /\ remote[ns].rv = st[c].rv
         r == [exists |-> TRUE,
               data |-> StoreObject(st[c].create, st[c].cm, name, encode(st[c].ac)),
               rv |-> remote[ns].rv + 1, by |-> Writer(c), wkey |-> name]
     IN /\ st' = [st EXCEPT ![c] =
             [Returned(Append(@.ops, op), IF ok THEN "nil" ELSE "err", FALSE)
                EXCEPT !.wrote = st[c].wrote, !.again = st[c].again]]
        /\ remote' = IF ok THEN [remote EXCEPT ![ns] = r] ELSE remote
        /\ feed' = IF ok THEN Emit(ns, IF st[c].create THEN "ADDED" ELSE "MODIFIED", r)
                   ELSE feed
  /\ rpc' = Return(c)
  /\ UNCHANGED <<mvars, namespaces, data, started, deliv, wpc, cancelled, last, pre, budget>>

\* ------------------------------------------------------------------- Run
\* Run, up to its loop: Start makes the channels and starts the watch tasks.
RunStart ==
  /\ rpc = "init"
  /\ rpc' = "select"
  /\ started' = TRUE
  /\ wpc' = [ns \in namespaces |-> "loop"]
  /\ UNCHANGED <<mvars, namespaces, data, deliv, feed, cancelled, st, last, pre, remote, budget>>

RunReturnsAnyTime ==
  /\ rpc = "select"
  /\ rpc' = "done"
  /\ UNCHANGED <<mvars, namespaces, data, started, deliv, wpc, feed, cancelled, st, last, pre, remote, budget>>

\* Run: case <-ctx.Done(): return nil.
RunCancel ==
  /\ rpc = "select"
  /\ cancelled
  /\ rpc' = "done"
  /\ UNCHANGED <<mvars, namespaces, data, started, deliv, wpc, feed, cancelled, st, last, pre, remote, budget>>

\* func triggerRollout: the patch handed to wl.Patch.
RolloutPatch(wl) ==
  [workload |-> wl, type |-> "StrategicMergePatchType",
   path |-> <<"spec", "template", "metadata", "annotations">>, annotation |-> "restartedAt"]

\* func Generate: the config generated for a workload.
Generate(ac) == Config(ac.WorkloadName, ac.Namespace, FALSE)

HandleDelAlwaysRollout(ok, ac) ==
  IF ~ok THEN <<>> ELSE <<RolloutPatch(ac.WorkloadName)>>

\* Run: what the case e := <-delCh does with an entry. ok: e.workload
\* returned no error.
HandleDel(ok, ac) ==
  IF ~ok THEN <<>>
  ELSE IF ac.Create THEN <<>>
  ELSE <<RolloutPatch(ac.WorkloadName)>>

HandleModFallThrough(ok, ac, genok) ==
  IF ~ok THEN [patches |-> <<>>, gen |-> "none", store |-> FALSE]
  ELSE [patches |-> <<RolloutPatch(ac.WorkloadName)>>,
        gen |-> IF ~ac.Create THEN "none" ELSE IF genok THEN "ok" ELSE "err",
        store |-> ac.Create /\ genok]

HandleModNoRollout(ok, ac, genok) ==
  IF ok /\ ac.Create
  THEN [patches |-> <<>>, gen |-> IF genok THEN "ok" ELSE "err", store |-> genok]
  ELSE [patches |-> <<>>, gen |-> "none", store |-> FALSE]

\* A failed Generate is answered by the rollout.
HandleModRollsOutOnError(ok, ac, genok) ==
  IF ~ok THEN [patches |-> <<>>, gen |-> "none", store |-> FALSE]
  ELSE IF ac.Create /\ genok THEN [patches |-> <<>>, gen |-> "ok", store |-> TRUE]
  ELSE [patches |-> <<RolloutPatch(ac.WorkloadName)>>,
        gen |-> IF ac.Create THEN "err" ELSE "none", store |-> FALSE]

\* Run: what the case e := <-addCh does with an entry: its patches, whether
\* Generate is called and whether Store is.
HandleMod(ok, ac, genok) ==
  IF ~ok THEN [patches |-> <<>>, gen |-> "none", store |-> FALSE]
  ELSE IF ac.Create
       THEN [patches |-> <<>>, gen |-> IF genok THEN "ok" ELSE "err", store |-> genok]
       ELSE [patches |-> <<RolloutPatch(ac.WorkloadName)>>, gen |-> "none", store |-> FALSE]

\* func triggerRollout: the outcomes of wl.Patch for the patches of an entry,
\* TRUE when it returns an error; the error is logged.
PatchErrs(patches) == IF patches = <<>> THEN {FALSE} ELSE BOOLEAN

\* What Run did for the entry it received last has failed: the entry did not
\* decode or its workload was not found, Generate, Store or Patch returned an
\* error.
Failed ==
  /\ last.kind # "none"
  /\ \/ ~last.ok
     \/ last.gen = "err"
     \/ last.perr
     \/ last.store /\ st["run"].ret = "err"

\* The goroutine ends with its first send.
SentLosesRest(t) == deliv (-) SetToBag({t})

\* The goroutine t after its send was received.
Sent(t) == (deliv (-) SetToBag({t})) (+) Spawn(t.ch, Tail(t.es), t.seq)

\* Run: case e := <-delCh. wlok: k8sapi.GetWorkload finds the workload.
RunDel(t, wlok) ==
  /\ rpc = "select"
  /\ BagIn(t, deliv) /\ t.ch = "del"
  /\ LET e == Head(t.es)
         ok == decodable(e.value) /\ wlok
         ac == IF decodable(e.value) THEN decode(e.value) ELSE NoStore.ac
     IN \E perr \in PatchErrs(HandleDel(ok, ac)) :
          last' = [kind |-> "del", e |-> e, ok |-> ok, create |-> ok /\ ac.Create,
                   patches |-> HandleDel(ok, ac), gen |-> "none", store |-> FALSE,
                   late |-> cancelled, flip |-> ~last.flip, seq |-> t.seq,
                   perr |-> perr, pf |-> Failed]
  /\ deliv' = Sent(t)
  /\ UNCHANGED <<mvars, namespaces, data, started, wpc, feed, rpc, cancelled, st, pre, remote, budget>>

\* Run: case e := <-addCh. genok: Generate returns a config.
RunMod(t, wlok, genok) ==
  /\ rpc = "select"
  /\ BagIn(t, deliv) /\ t.ch = "mod"
  /\ LET e == Head(t.es)
         ok == decodable(e.value) /\ wlok
         ac == IF decodable(e.value) THEN decode(e.value) ELSE NoStore.ac
         h == HandleMod(ok, ac, genok)
     IN /\ \E perr \in PatchErrs(h.patches) :
             last' = [kind |-> "mod", e |-> e, ok |-> ok, create |-> ok /\ ac.Create,
                      patches |-> h.patches, gen |-> h.gen, store |-> h.store,
                      late |-> cancelled, flip |-> ~last.flip, seq |-> t.seq,
                      perr |-> perr, pf |-> Failed]
        /\ st' = IF h.store
                 THEN [st EXCEPT !["run"] = [NoStore EXCEPT !.pc = "get", !.ac = Generate(ac),
                                                            !.upd = FALSE]]
                 ELSE st
        /\ rpc' = IF h.store THEN "store" ELSE rpc
  /\ deliv' = Sent(t)
  /\ UNCHANGED <<mvars, namespaces, data, started, wpc, feed, cancelled, pre, remote, budget>>

\* ------------------------------------------------------------ the system
Next ==
  \/ \E ns \in namespaces, k \in Keys : \E v \in ValuesOf(ns, k) : ExtSet(ns, k, v)
  \/ \E ns \in namespaces, k \in Keys : ExtRemove(ns, k)
  \/ \E ns \in namespaces : ExtDelete(ns)
  \/ \E ns \in namespaces : FeedClose(ns)
  \/ Cancel
  \/ \E ns \in namespaces : WatchOpen(ns)
  \/ \E ns \in namespaces : WatchOpenFail(ns)
  \/ \E ns \in namespaces : WatchLoopExit(ns)
  \/ \E ns \in namespaces : WatchCancel(ns)
  \/ \E ns \in namespaces : WatchClosed(ns)
  \/ \E ns \in namespaces : WatchEvent(ns)
  \/ \E t \in BagToSet(deliv) : DelivCancel(t)
  \/ \E ns \in namespaces, k \in WKeys, upd \in BOOLEAN : ApiStore(ns, k, upd)
  \/ \E c \in Callers, fails \in BOOLEAN : StoreGet(c, fails)
  \/ \E c \in Callers : StoreLock(c)
  \/ \E c \in Callers, fails \in BOOLEAN : StoreWrite(c, fails)
  \/ RunStart
  \/ RunCancel
  \/ \E t \in BagToSet(deliv), wlok \in BOOLEAN : RunDel(t, wlok)
  \/ \E t \in BagToSet(deliv), wlok \in BOOLEAN, genok \in BOOLEAN : RunMod(t, wlok, genok)

Spec == Init /\ [][Next]_vars

SpecNs == InitNs /\ [][Next]_vars

MapNext ==
  \/ \E k \in MapKeys, v \in MapVals, mark \in BOOLEAN : MapStore(k, v, mark)
  \/ \E k \in MapKeys : MapDelete(k)
  \/ \E k \in MapKeys, v \in MapVals : MapLoadOrStore(k, v)
  \/ \E s \in Subs, pred \in Preds : MapSubscribe(s, pred)
  \/ \E s \in Subs : MapRead(s)
  \/ \E s \in Subs : MapCancel(s)
  \/ \E s \in Subs : MapSubEnds(s)
  \/ MapClose

SpecMap == Init /\ [][MapNext]_vars

\* The diff of update on its own: a watch task that holds any cached map of
\* its namespace receives any event.
DiffKeys == {"w1", "w2", "w3", InjectorKey}

\* The ConfigMap contents over DiffKeys, every value an agent config or the
\* injector settings.
DiffMaps(ns) ==
  UNION {{f \in [S -> UNION {ValuesOf(ns, k) : k \in S}] :
            \A k \in S : f[k] \in ValuesOf(ns, k) \ {BadYaml}} : S \in SUBSET DiffKeys}

InitDiff ==
  /\ namespaces = {"ns1"}
  /\ \E C \in DiffMaps("ns1") : data \in {[ns \in {"ns1"} |-> C]} \cup {EmptyMap}
  /\ started = TRUE
  /\ deliv = EmptyBag
  /\ wpc = [ns \in namespaces |-> "watching"]
  /\ \E M \in DiffMaps("ns1"), type \in {"ADDED", "MODIFIED", "DELETED"} :
       LET r == [exists |-> TRUE, data |-> M, rv |-> 1, by |-> "ext", wkey |-> "none"]
       IN /\ feed = [ns \in namespaces |-> [open |-> TRUE, q |-> <<Event(type, ns, r)>>, n |-> 1,
                                         h |-> 0]]
          /\ remote = [ns \in AllNs |->
                        IF ns = "ns1" /\ type # "DELETED" THEN r ELSE NoRemote]
  /\ rpc = "select"
  /\ cancelled = FALSE
  /\ st = [c \in Callers |-> NoStore]
  /\ last = NoLast
  /\ pre = {}
  /\ budget = 0
  /\ MapInit

NextDiff == \E ns \in namespaces : WatchEvent(ns)

SpecDiff == InitDiff /\ [][NextDiff]_vars

\* The delivery of two events: a watch task with an empty cache whose watch
\* has been sent the ConfigMap as it was and one change of it, Run, and the
\* cancellation signal.
OrdKeys == {"w1", "w2"}

OrdMaps(ns) ==
  UNION {{f \in [S -> UNION {ValuesOf(ns, k) : k \in S}] :
            \A k \in S : f[k] \in ValuesOf(ns, k) \ {BadYaml}} : S \in SUBSET OrdKeys}

InitOrd ==
  /\ namespaces = {"ns1"}
  /\ data = EmptyMap
  /\ started = TRUE
  /\ deliv = EmptyBag
  /\ wpc = [ns \in namespaces |-> "watching"]
  /\ \E M1 \in OrdMaps("ns1"), M2 \in OrdMaps("ns1"), type \in {"MODIFIED", "DELETED"} :
       LET r1 == [exists |-> TRUE, data |-> M1, rv |-> 1, by |-> "ext", wkey |-> "none"]
           r2 == [exists |-> TRUE, data |-> IF type = "DELETED" THEN M1 ELSE M2, rv |-> 2,
                  by |-> "ext", wkey |-> "none"]
       IN /\ type = "MODIFIED" => M1 # M2
          /\ feed = [ns \in namespaces |->
                       [open |-> TRUE, q |-> <<Event("ADDED", ns, r1), Event(type, ns, r2)>>,
                        n |-> 1, h |-> 0]]
          /\ remote = [ns \in AllNs |->
                        IF ns # "ns1" THEN NoRemote
                        ELSE IF type = "DELETED" THEN [NoRemote EXCEPT !.rv = 2] ELSE r2]
  /\ rpc = "select"
  /\ cancelled = FALSE
  /\ st = [c \in Callers |-> NoStore]
  /\ last = NoLast
  /\ pre = {}
  /\ budget = 0
  /\ MapInit

NextOrd ==
  \/ Cancel
  \/ \E ns \in namespaces : WatchEvent(ns)
  \/ \E t \in BagToSet(deliv) : DelivCancel(t)
  \/ \E c \in Callers, fails \in BOOLEAN : StoreGet(c, fails)
  \/ \E c \in Callers : StoreLock(c)
  \/ \E c \in Callers, fails \in BOOLEAN : StoreWrite(c, fails)
  \/ \E t \in BagToSet(deliv), wlok \in BOOLEAN : RunDel(t, wlok)
  \/ \E t \in BagToSet(deliv), wlok \in BOOLEAN, genok \in BOOLEAN : RunMod(t, wlok, genok)

SpecOrd == InitOrd /\ [][NextOrd]_vars

\* Some writeToChan goroutine takes its cancellation case.
DelivCancelAny == \E t \in BagToSet(deliv) : DelivCancel(t)

\* The scheduling of the goroutines: a goroutine that can take a step takes
\* one, the calls of Run to the API server return, and a select that is entered
\* again and again with its cancellation case ready takes it in the end.
Fairness ==
  /\ SF_vars(RunCancel)
  /\ WF_vars(\E fails \in BOOLEAN : StoreGet("run", fails))
  /\ WF_vars(StoreLock("run"))
  /\ WF_vars(\E fails \in BOOLEAN : StoreWrite("run", fails))
  /\ WF_vars(DelivCancelAny)
  /\ \A ns \in AllNs : SF_vars(ns \in namespaces /\ WatchCancel(ns))
  /\ \A ns \in AllNs : WF_vars(ns \in namespaces /\ WatchLoopExit(ns))

FairSpec == Init /\ [][Next]_vars /\ Fairness

\* ------------------------------------------------------------ properties
\* The config an entry's value decodes to.
ConfigOf(e) == decode(e.value)

\* Run has received the entry of kind k last, decoded it and found its
\* workload.
Handled(k) == last.kind = k /\ last.ok

\* The entry comes from the event that carries Run's own Store of its key.
OwnStore(e) == e.by = "run" /\ e.own

\* The namespace's map of c.data after the step.
CachedNext(ns) == IF ns \in DOMAIN data' THEN data'[ns] ELSE EmptyMap

\* Caller c takes the step of Store that starts at pc.
StoreStep(c, pc) == st[c].pc = pc /\ st'[c] # st[c]

\* C1 as the spec states it: a modify-entry with create=true is answered by
\* Generate and Store and by no rollout patch, and no rollout patch is issued
\* either for the entry that the feed's delivery of that Store's write produces.
C1_NoRolloutForCreate ==
  /\ (Handled("mod") /\ ConfigOf(last.e).Create) =>
        last.patches = <<>> /\ last.gen # "none"
  /\ ~(last.kind = "mod" /\ OwnStore(last.e) /\ last.patches # <<>>)

\* C1, amended: a modify-entry with create=true whose workload resolves is
\* answered by Generate and, when that succeeds, by Store of the generated config
\* with updateSnapshot=false, and by no rollout patch while it is handled. That
\* Store leaves the cache as it is, and the modify-entry that the feed's delivery
\* of its write produces carries create=false and gets a rollout patch.
C1_State ==
  /\ (Handled("mod") /\ ConfigOf(last.e).Create) =>
        /\ last.patches = <<>>
        /\ last.gen \in {"ok", "err"}
        /\ last.store <=> last.gen = "ok"
  /\ rpc = "store" =>
        /\ last.store
        /\ st["run"].ac = Generate(ConfigOf(last.e))
        /\ ~st["run"].upd
  /\ (Handled("mod") /\ OwnStore(last.e)) =>
        /\ ~ConfigOf(last.e).Create
        /\ last.patches = <<RolloutPatch(ConfigOf(last.e).WorkloadName)>>

C1_RolloutAfterGenerate ==
  [][/\ C1_State'
     /\ StoreStep("run", "lock") =>
          CachedNext(st["run"].ac.Namespace) = Cached(st["run"].ac.Namespace)]_vars

C1_Witness ==
  /\ Handled("mod") /\ OwnStore(last.e)
  /\ last.e.name = "w1"
  /\ last.patches # <<>>

\* C2: a modify-entry whose config has create=false and whose workload
\* resolves gets exactly one rollout patch, a strategic merge patch of the pod
\* template's restart annotation for that workload, and neither Generate nor
\* Store is called for it.
C2_ModifyRollsOutOnce ==
  (Handled("mod") /\ ~ConfigOf(last.e).Create) =>
     /\ last.patches = <<RolloutPatch(ConfigOf(last.e).WorkloadName)>>
     /\ last.patches[1].type = "StrategicMergePatchType"
     /\ last.patches[1].annotation = "restartedAt"
     /\ last.gen = "none"
     /\ ~last.store
     /\ rpc # "store"

C2_Witness ==
  /\ Handled("mod") /\ ~ConfigOf(last.e).Create
  /\ Len(last.patches) = 1
  /\ last.e.name = "w1"

\* C3: a delete-entry whose config has create=true gets no rollout patch; one
\* whose config has create=false and whose workload resolves gets a rollout
\* patch.
C3_DeleteRollout ==
  last.kind = "del" =>
     /\ (decodable(last.e.value) /\ ConfigOf(last.e).Create) => last.patches = <<>>
     /\ (last.ok /\ ~ConfigOf(last.e).Create) =>
           last.patches = <<RolloutPatch(ConfigOf(last.e).WorkloadName)>>
     /\ last.gen = "none" /\ ~last.store

C3_Witness ==
  /\ Handled("del") /\ ConfigOf(last.e).Create
  /\ last.patches = <<>>

\* C4 as the spec states it: a Store of the serialization the cache holds
\* returns nil after no call to the API server.
C4_NoRemoteCallWhenEqual ==
  \A c \in Callers : st[c].eq => st[c].ret = "nil" /\ st[c].ops = <<>>

\* C4, amended: Store first gets the ConfigMap; when that get succeeds or
\* reports not found and the cache holds this very serialization, Store returns
\* nil without a Create or an Update and leaves the cache, the ConfigMap and the
\* feed as they are.
C4_OnlyGetWhenEqual ==
  [][\A c \in Callers :
       (StoreStep(c, "lock")
          /\ StoreEq(st[c].ac.Namespace, st[c].ac.AgentName, encode(st[c].ac))) =>
         /\ st'[c].pc = "idle"
         /\ st'[c].ret = "nil"
         /\ st'[c].ops = <<"get">>
         /\ data' = data
         /\ remote' = remote
         /\ feed' = feed]_vars

C4_Witness ==
  \E c \in Callers : st[c].eq /\ st[c].ret = "nil" /\ st[c].ops = <<"get">>

\* The goroutines the step starts.
Started(t) == CopiesIn(t, deliv') > CopiesIn(t, deliv)

\* The watch task of ns takes the step that handles the event at the head of
\* its feed.
EventStep(ns) ==
  /\ wpc[ns] = "watching"
  /\ feed[ns].q # <<>>
  /\ feed'[ns].q = Tail(feed[ns].q)

\* A goroutine sends an entry for the key the event's writer stored.
SendsOwn(t, ch, by) ==
  t.ch = ch /\ \E i \in 1..Len(t.es) : t.es[i].by = by /\ t.es[i].own

\* C5 as the spec states it: no modify-entry is ever dispatched for the key of
\* a Store with updateSnapshot=true from the event that carries its write.
C5_NeverOwnModify ==
  \A t \in BagToSet(deliv) : ~SendsOwn(t, "mod", "apiT")

\* C5, the part the code keeps: Store with updateSnapshot=true writes the
\* serialization into the cache before it calls Create or Update; the event that
\* carries that write produces no modify-entry for the key when update has not
\* replaced the cached value of the key since Store wrote it.
C5_OwnWriteSuppressed ==
  [][/\ \A c \in Callers :
          (StoreStep(c, "lock") /\ st[c].upd
             /\ ~StoreEq(st[c].ac.Namespace, st[c].ac.AgentName, encode(st[c].ac))) =>
            /\ Has(CachedNext(st[c].ac.Namespace), st[c].ac.AgentName)
            /\ CachedNext(st[c].ac.Namespace)[st[c].ac.AgentName] = encode(st[c].ac)
            /\ st'[c].pc = "write"
            /\ st'[c].ops = <<"get">>
            /\ remote' = remote
     /\ \A ns \in namespaces :
          (/\ EventStep(ns)
           /\ Head(feed[ns].q).by = "apiT"
           /\ Head(feed[ns].q).type # "DELETED"
           /\ [ns |-> ns, key |-> Head(feed[ns].q).wkey,
               value |-> Head(feed[ns].q).data[Head(feed[ns].q).wkey]] \in pre) =>
            \A t \in BagToSet(deliv') : Started(t) => ~SendsOwn(t, "mod", "apiT")]_vars

C5_Witness ==
  \E ns \in namespaces :
    /\ wpc[ns] = "watching"
    /\ feed[ns].q # <<>>
    /\ Head(feed[ns].q).by = "apiT"
    /\ Head(feed[ns].q).type = "MODIFIED"
    /\ [ns |-> ns, key |-> Head(feed[ns].q).wkey,
        value |-> Head(feed[ns].q).data[Head(feed[ns].q).wkey]] \in pre

\* C6: a get that fails otherwise than with not found makes Store return the
\* error with no Create, no Update and no change of the cache; after not found
\* Store creates the ConfigMap with this one key; otherwise it updates the
\* ConfigMap to the key set it read with this key's value replaced.
C6_GetOrCreate ==
  [][\A c \in Callers :
       LET ns == st[c].ac.Namespace
           name == st[c].ac.AgentName
           d == remote'[ns].data
       IN /\ StoreStep(c, "get") =>
               /\ st'[c].pc = "idle" =>
                    /\ st'[c].ret = "err" /\ st'[c].ops = <<"get">>
                    /\ data' = data /\ remote' = remote
               /\ st'[c].pc = "lock" =>
                    /\ st'[c].create = ~remote[ns].exists
                    /\ remote[ns].exists => st'[c].cm = remote[ns].data
          /\ StoreStep(c, "write") =>
               /\ st'[c].ops = <<"get", IF st[c].create THEN "create" ELSE "update">>
               /\ st'[c].ret = "nil" => remote' # remote
               /\ remote' # remote =>
                    /\ d[name] = encode(st[c].ac)
                    /\ IF st[c].create THEN DOMAIN d = {name}
                       ELSE /\ DOMAIN d = (DOMAIN st[c].cm) \cup {name}
                            /\ \A k \in (DOMAIN st[c].cm) \ {name} : d[k] = st[c].cm[k]]_vars

C6_Witness ==
  \E c \in Callers, ns \in namespaces :
    /\ st[c].ops = <<"get", "update">> /\ st[c].ret = "nil"
    /\ remote[ns].by \in {"run", "apiT", "apiF"}
    /\ Cardinality(DOMAIN remote[ns].data) >= 2

\* Run receives an entry in the step.
Receives == last'.flip # last.flip

\* C9 as the spec states it: Run receives no entry after the cancellation
\* signal has fired.
C9_NoReceiveAfterCancel == ~last.late

\* C9, amended: Run returns only when its select takes the cancellation case,
\* and once it has returned it receives no entry and starts no rollout,
\* generation or store. The select has no priority among its ready cases: after
\* the signal has fired Run may still receive an entry, and only one that a
\* delivery goroutine is sending while Run is in its select.
C9_ReturnsAtCancelCase ==
  [][/\ (rpc # "done" /\ rpc' = "done") =>
          cancelled /\ rpc = "select" /\ last' = last /\ st' = st
     /\ rpc = "done" => rpc' = "done" /\ last' = last /\ st'["run"] = st["run"]
     /\ (cancelled /\ Receives) =>
          /\ rpc = "select"
          /\ \E t \in BagToSet(deliv) :
               /\ last'.e = Head(t.es) /\ last'.kind = t.ch
               /\ deliv' = Sent(t)]_vars

C9_Witness == last.late /\ rpc = "done" /\ deliv # EmptyBag

\* The watch task of ns is running.
Watches(ns) == wpc[ns] \in {"loop", "watching"}

\* The watch task of ns returns in the step.
TaskExits(ns) == Watches(ns) /\ wpc'[ns] \in {"failed", "stopped"}

\* The tasks other than the one of ns, and Run, are where they were.
OthersRun(ns) ==
  /\ \A o \in namespaces \ {ns} : wpc'[o] = wpc[o] /\ feed'[o] = feed[o]
  /\ rpc' = rpc /\ deliv' = deliv

\* C7 as the spec states it: a task whose feed closes before the cancellation
\* signal opens a new feed, a task that has opened its first feed returns only
\* after the signal, and only the failure to open the first feed makes a task
\* return early, the other tasks and Run going on.
C7_StopsOnlyAfterCancel ==
  [][\A ns \in namespaces :
       /\ (wpc[ns] = "watching" /\ wpc'[ns] # "watching" /\ ~cancelled) => wpc'[ns] = "loop"
       /\ (TaskExits(ns) /\ feed[ns].n >= 1) => cancelled
       /\ (TaskExits(ns) /\ ~cancelled) => feed[ns].n = 0 /\ OthersRun(ns)]_vars

\* C7, amended: a task whose feed closes before the cancellation signal goes to
\* open a new feed, which it can; a task returns only after the signal or when
\* Watch fails to open a feed, the first one or a later one, and that early
\* return leaves the other tasks and Run going on.
C7_StopsAfterCancelOrOpenFailure ==
  [][\A ns \in namespaces :
       /\ (wpc[ns] = "watching" /\ wpc'[ns] # "watching" /\ ~cancelled) =>
            /\ wpc'[ns] = "loop"
            /\ feed[ns].q = <<>> /\ ~feed[ns].open
       /\ (wpc[ns] = "loop" /\ wpc'[ns] = "watching") =>
            ~cancelled /\ feed'[ns].open /\ feed'[ns].n = feed[ns].n + 1
       /\ wpc'[ns] = "stopped" => wpc[ns] = "stopped" \/ cancelled
       /\ (TaskExits(ns) /\ ~cancelled) =>
            /\ wpc[ns] = "loop" /\ wpc'[ns] = "failed"
            /\ OthersRun(ns)]_vars

C7_Witness ==
  \E ns \in namespaces, o \in namespaces :
    /\ wpc[ns] = "failed" /\ feed[ns].n >= 1
    /\ ~cancelled
    /\ wpc[o] = "watching" /\ feed[o].n >= 2
    /\ rpc = "select"

\* Run, every watch task and every writeToChan goroutine has returned.
Terminated ==
  /\ rpc \in {"init", "done"}
  /\ \A ns \in namespaces : ~Watches(ns)
  /\ deliv = EmptyBag

\* C8: after the cancellation signal has fired every task returns: the watch
\* tasks, the writeToChan goroutines, blocked in a send or not, and Run.
C8_AllTasksReturn == cancelled ~> Terminated

C8_Witness ==
  /\ cancelled /\ Terminated
  /\ rpc = "done"
  /\ \E ns \in namespaces : wpc[ns] = "stopped"
  /\ last.late

\* snap holds the entries of m, all of them or, of a subset, those whose field
\* is not "ignoreme".
Restricts(snap, m, subset) ==
  /\ DOMAIN snap = {k \in DOMAIN m : ~subset \/ m[k] # "ignoreme"}
  /\ \A k \in DOMAIN snap : snap[k] = m[k]

\* C10: a subscription made on an open map has one snapshot ready to be read
\* while no write has followed, that snapshot is the content at the time of the
\* subscription, restricted to the entries its predicate matches, and once it is
\* read no other one is ready.
C10_FirstSnapshot ==
  \A s \in Subs :
    (subs[s].state = "open" /\ subs[s].fresh) =>
       /\ subs[s].nread = 0 => subs[s].dirty
       /\ subs[s].nread > 0 =>
            /\ subs[s].nread = 1
            /\ ~subs[s].dirty
            /\ subs[s].ok
            /\ subs[s].snap = subs[s].atsub
            /\ Restricts(subs[s].snap, mp.val, subs[s].pred = "subset")

C10_Witness ==
  \E s \in Subs :
    /\ subs[s].state = "open" /\ subs[s].fresh
    /\ subs[s].pred = "subset"
    /\ subs[s].nread = 1
    /\ subs[s].snap # EmptyMap
    /\ subs[s].snap # mp.val

\* The reader of s receives from an open channel in the step.
ReadStep(s) == subs[s].state = "open" /\ subs'[s].nread > subs[s].nread

\* C11: the writes made between two reads of a subscriber's channel are read
\* as one snapshot, the content after all of them restricted to the predicate:
\* a write that changes the subscriber's snapshot leaves one pending, a read
\* takes the pending one and leaves none, and a write is possible whatever the
\* subscribers have read.
C11_Coalesced ==
  [][/\ \A s \in Subs :
          /\ (subs'[s].state = "open" /\ subs'[s].chg) => subs'[s].dirty
          /\ ReadStep(s) =>
                /\ subs[s].dirty
                /\ subs'[s].ok
                /\ Restricts(subs'[s].snap, mp.val, subs[s].pred = "subset")
                /\ ~subs'[s].dirty
                /\ mp' = mp
     /\ (mops > 0 /\ ~mp.closed) =>
          \A k \in MapKeys :
            /\ ENABLED MapDelete(k)
            /\ \A v \in MapVals : ENABLED MapStore(k, v, FALSE)]_vars

C11_Witness ==
  \E s \in Subs :
    /\ subs[s].state = "open"
    /\ subs[s].nread = 2
    /\ subs[s].got = 2
    /\ subs[s].ok
    /\ subs[s].snap = mp.val
    /\ ~subs[s].dirty

\* C12 as the spec states it: a channel that is closed delivers no snapshot, no
\* subscription is open once the map is closed, and no snapshot is read from a
\* subscription whose lifetime token is cancelled.
C12_NothingAfterCloseOrCancel ==
  [][\A s \in Subs :
       /\ (subs[s].state = "closed" /\ subs'[s] # subs[s]) => ~subs'[s].ok
       /\ mp'.closed => subs'[s].state # "open"
       /\ ReadStep(s) => ~subs[s].done]_vars

\* C12, amended: Close closes the channel of every subscription there is, and a
\* subscription made afterwards has a closed channel; a subscription whose
\* token is cancelled closes its channel in a step of its own, and the snapshot
\* then pending is dropped. A closed channel stays closed, and its reader reads
\* the end of the stream and no snapshot.
C12_ClosedForGood ==
  [][\A s \in Subs :
       /\ subs[s].state = "closed" =>
            /\ subs'[s].state = "closed"
            /\ ~subs'[s].dirty
            /\ subs'[s] # subs[s] => ~subs'[s].ok /\ subs'[s].snap = EmptyMap
            /\ subs[s].ok => ENABLED MapRead(s)
       /\ mp.closed => mp'.closed
       /\ mp'.closed => subs'[s].state # "open"
       /\ (subs[s].state = "open" /\ subs'[s].state = "closed") =>
            /\ ~subs'[s].dirty
            /\ subs[s].done \/ (~mp.closed /\ mp'.closed)
       /\ subs[s].done => subs'[s].done]_vars

C12_Witness ==
  /\ \E s \in Subs :
       /\ subs[s].state = "closed" /\ subs[s].done
       /\ subs[s].chg
       /\ subs[s].nread = 1 /\ ~subs[s].ok
  /\ \E s \in Subs :
       /\ mp.closed
       /\ subs[s].state = "closed" /\ ~subs[s].done
       /\ subs[s].nread = 1 /\ ~subs[s].ok

\* The map the event at the head of the namespace's feed is handled as: nil
\* for the deletion of the ConfigMap.
HeadMap(ns) ==
  IF Head(feed[ns].q).type = "DELETED" THEN EmptyMap ELSE Head(feed[ns].q).data

\* The entries the goroutines started in the step are to send on ch.
StartedEntries(ch) ==
  UNION {{t.es[i] : i \in 1..Len(t.es)} : t \in {x \in BagToSet(deliv') : Started(x) /\ x.ch = ch}}

\* The names of a set of entries.
Names(es) == {e.name : e \in es}

\* C13: the event's map m against the cached map old gives a delete-entry with
\* the cached value for exactly the keys of old that m lacks, a modify-entry with
\* the new value for exactly the keys of m that old lacks or holds with another
\* value, one entry a key, none for a key whose value is the same, and no key
\* in both lists. (An entry of the reserved key at the head of a list is skipped
\* by writeToChan before anything is sent.)
C13_Diff ==
  [][\A ns \in namespaces : EventStep(ns) =>
       LET old == Cached(ns)
           m == HeadMap(ns)
           gone == (DOMAIN old) \ (DOMAIN m)
           new == (DOMAIN m) \ (DOMAIN old)
           changed == {k \in (DOMAIN m) \cap (DOMAIN old) : old[k] # m[k]}
           dels == StartedEntries("del")
           mods == StartedEntries("mod")
       IN /\ Names(dels) \subseteq gone
          /\ gone \ {InjectorKey} \subseteq Names(dels)
          /\ Names(mods) \subseteq new \cup changed
          /\ (new \cup changed) \ {InjectorKey} \subseteq Names(mods)
          /\ \A e \in dels : e.namespace = ns /\ e.value = old[e.name]
          /\ \A e \in mods : e.namespace = ns /\ e.value = m[e.name]
          /\ Cardinality(dels) = Cardinality(Names(dels))
          /\ Cardinality(mods) = Cardinality(Names(mods))
          /\ Names(dels) \cap Names(mods) = {}
          /\ \A t \in BagToSet(deliv') : Started(t) => CopiesIn(t, deliv') = CopiesIn(t, deliv) + 1]_vars

\* The diff of the example: a key deleted, a key added, a key changed and a key
\* left as it was.
C13_Witness ==
  /\ feed["ns1"].q = <<>>
  /\ \E t \in BagToSet(deliv) : t.ch = "del" /\ Len(t.es) = 1 /\ t.es[1].name = "w1"
  /\ \E t \in BagToSet(deliv) :
       /\ t.ch = "mod" /\ Len(t.es) = 2
       /\ {t.es[1].name, t.es[2].name} = {"w2", "w3"}
       /\ \A i \in 1..2 : t.es[i].value = Cached("ns1")[t.es[i].name]
  /\ DOMAIN Cached("ns1") = {"w2", "w3", InjectorKey}

\* The cached value of a key, when there is one.
Value(m, k) == IF Has(m, k) THEN <<m[k]>> ELSE <<>>

\* C14: when the watch task has handled an event the cache of the namespace is
\* the event's map, empty for the deletion of the ConfigMap; between two events
\* the cached value of a key changes only when a Store with updateSnapshot=true
\* writes its serialization under its key.
C14_CacheIsLastEvent ==
  [][\A ns \in namespaces :
       IF EventStep(ns)
       THEN CachedNext(ns) = HeadMap(ns)
       ELSE \A k \in DOMAIN Cached(ns) \cup DOMAIN CachedNext(ns) :
              Value(CachedNext(ns), k) # Value(Cached(ns), k) =>
                \E c \in Callers :
                  /\ StoreStep(c, "lock")
                  /\ st[c].upd
                  /\ st[c].ac.Namespace = ns /\ st[c].ac.AgentName = k
                  /\ Value(CachedNext(ns), k) = <<encode(st[c].ac)>>]_vars

C14_Witness ==
  \E p \in pre :
    /\ wpc[p.ns] = "watching" /\ feed[p.ns].q = <<>>
    /\ Value(Cached(p.ns), p.key) = <<p.value>>
    /\ Has(Cached(p.ns), InjectorKey)
    /\ DOMAIN remote[p.ns].data = {InjectorKey}

\* C15 as the spec states it: Run receives no entry of an event while a
\* goroutine still holds an entry of an earlier event of the same namespace.
C15_EventOrder ==
  \A t \in BagToSet(deliv) :
    (last.kind # "none" /\ Head(t.es).namespace = last.e.namespace) => t.seq >= last.seq

\* The entries a goroutine goes on to send after its first one.
Rest(t) == SkipInjector(Tail(t.es))

\* C15, amended: update computes the diff of an event and updates the cache in
\* one critical section and hands each of its two lists to a goroutine of its
\* own; Run receives the entries of one list in the order of the list, and
\* the goroutines of the two lists and of different events in any order.
C15_ListOrder ==
  [][/\ Receives =>
          \E t \in BagToSet(deliv) :
            /\ last'.e = Head(t.es) /\ last'.kind = t.ch /\ last'.seq = t.seq
            /\ deliv' (+) SetToBag({t}) =
                 deliv (+) (IF Rest(t) = <<>> THEN EmptyBag
                            ELSE SetToBag({[ch |-> t.ch, es |-> Rest(t), seq |-> t.seq]}))
     /\ \A ns \in namespaces : EventStep(ns) =>
          /\ CachedNext(ns) = HeadMap(ns)
          /\ \A t \in BagToSet(deliv') : Started(t) =>
                /\ t.seq = feed[ns].h
                /\ \A u \in BagToSet(deliv) : Head(u.es).namespace = ns => u.seq < t.seq
          /\ \A t, u \in BagToSet(deliv') : (Started(t) /\ Started(u) /\ t.ch = u.ch) => t = u]_vars

\* Run has received the first entry of a list of two and then the second,
\* while a goroutine of another event was waiting.
C15_Witness ==
  /\ last.kind = "mod" /\ last.seq = 0
  /\ last.e.name = "w2"
  /\ \E t \in BagToSet(deliv) : t.seq = 1 /\ t.ch = "del" /\ Len(t.es) = 2
  /\ \A t \in BagToSet(deliv) : t.seq = 1
  /\ feed["ns1"].q = <<>>
  /\ rpc = "select"
  /\ ~cancelled

\* The goroutines that hold entries of the namespace.
Pending(ns) == {t \in BagToSet(deliv) : Head(t.es).namespace = ns}

\* C16 as the spec states it: the entries that wait to be received are those
\* of one event, the watch task handles no other event while they wait.
C16_OneBatchPending ==
  \A ns \in namespaces : \A t, u \in Pending(ns) : t.seq = u.seq

\* C16, amended: a goroutine of writeToChan waits with its entry until Run
\* receives it or the cancellation signal has fired; update does not wait for
\* the goroutines it starts, so the watch task handles the next event whatever
\* Run is doing, and the goroutines that wait are bounded only by the events
\* handled, two for each.
C16_SendersWaitTaskGoesOn ==
  [][/\ \A t \in BagToSet(deliv) :
          CopiesIn(t, deliv') < CopiesIn(t, deliv) =>
            \/ Receives /\ last'.e = Head(t.es)
            \/ cancelled
     /\ \A ns \in namespaces :
          /\ (wpc[ns] = "watching" /\ feed[ns].q # <<>>) => ENABLED WatchEvent(ns)
          /\ Cardinality(Pending(ns)) <= 2 * feed[ns].h]_vars

\* Run is in Store while the entries of two events wait.
C16_Witness ==
  /\ rpc = "store"
  /\ \E t, u \in Pending("ns1") : t.seq # u.seq
  /\ feed["ns1"].q = <<>>

\* C17: an entry that does not decode, whose workload is not found, whose
\* Generate, Store or Patch returns an error is given up: nothing else is
\* attempted for it, Run goes back to its select and returns only on the
\* cancellation signal, and what Run does for an entry depends on that entry
\* and on nothing that failed before.
C17_FailureIsolated ==
  [][/\ Receives =>
          /\ ~decodable(last'.e.value) => ~last'.ok
          /\ ~last'.ok =>
                /\ last'.patches = <<>> /\ last'.gen = "none" /\ ~last'.store
                /\ rpc' = "select"
          /\ last'.gen = "err" =>
                last'.patches = <<>> /\ ~last'.store /\ rpc' = "select"
          /\ last'.perr =>
                Len(last'.patches) = 1 /\ ~last'.store /\ rpc' = "select"
          /\ (last'.ok /\ ~ConfigOf(last'.e).Create) =>
                last'.patches = <<RolloutPatch(ConfigOf(last'.e).WorkloadName)>>
          /\ (last'.ok /\ ConfigOf(last'.e).Create) =>
                /\ last'.patches = <<>>
                /\ last'.kind = "del" => last'.gen = "none" /\ ~last'.store
                /\ last'.kind = "mod" =>
                      /\ last'.gen \in {"ok", "err"}
                      /\ last'.store <=> last'.gen = "ok"
          /\ rpc' = "store" <=> last'.store
     /\ (st["run"].pc # "idle" /\ st'["run"].ret = "err") =>
          /\ st'["run"].pc = "idle"
          /\ rpc' = "select"
          /\ last' = last
          /\ deliv' = deliv
     /\ (rpc # "done" /\ rpc' = "done") => cancelled
     /\ (rpc = "select" /\ deliv # EmptyBag) =>
          \E t \in BagToSet(deliv) :
            \/ ENABLED RunDel(t, TRUE)
            \/ ENABLED RunMod(t, TRUE, TRUE)]_vars

\* After an entry that failed, Run has rolled out for the next one.
C17_Witness ==
  /\ last.pf
  /\ last.ok /\ ~last.perr
  /\ Len(last.patches) = 1
  /\ rpc = "select"

\* C18: no goroutine of writeToChan offers an entry of the reserved key and Run
\* receives none, whatever the events do to the key; update keeps the key in
\* the cache as the events carry it.
C18_InjectorKeyNotDispatched ==
  [][/\ \A t \in BagToSet(deliv') : Head(t.es).name # InjectorKey
     /\ Receives => last'.e.name # InjectorKey
     /\ \A ns \in namespaces : EventStep(ns) =>
          Value(CachedNext(ns), InjectorKey) = Value(HeadMap(ns), InjectorKey)]_vars

\* The reserved key has come with an event and is cached, every goroutine has
\* finished, and Run has received the entry of the workload only.
C18_Witness ==
  /\ Value(Cached("ns1"), InjectorKey) = <<InjectorYaml>>
  /\ Has(Cached("ns1"), "w1")
  /\ last.kind = "mod" /\ last.e.name = "w1" /\ ~last.pf
  /\ feed["ns1"].h = 1
  /\ deliv = EmptyBag /\ ~cancelled

\* C19: an event whose map is the map the cache holds for the namespace, the
\* first event of a watch opened after a closure or any other, starts no
\* goroutine, so no delete-entry and no modify-entry, and leaves the cache as it
\* is.
C19_SameMapNoEntries ==
  [][\A ns \in namespaces :
       (EventStep(ns) /\ HeadMap(ns) = Cached(ns)) =>
          /\ deliv' = deliv
          /\ CachedNext(ns) = Cached(ns)
          /\ last' = last /\ rpc' = rpc /\ st' = st]_vars

\* The watch was closed and opened again, its first event carried the cached
\* map, and the only entry there has been is the one of the first watch.
C19_Witness ==
  /\ feed["ns1"].n = 2 /\ feed["ns1"].h = 2 /\ feed["ns1"].q = <<>>
  /\ Has(Cached("ns1"), "w1")
  /\ Cached("ns1") = remote["ns1"].data
  /\ last.kind = "mod" /\ last.seq = 0
  /\ deliv = EmptyBag /\ ~cancelled
  /\ budget = 0

\* C20: a Store that has returned an error has not written its key into the
\* cache, and a Store that follows one that failed calls Create or Update again.
C20_ErrorLeavesCache ==
  \A c \in Callers :
    /\ st[c].ret = "err" => st[c].wrote = <<>>
    /\ (st[c].again /\ st[c].ret = "nil") =>
          \E i \in 1..Len(st[c].ops) : st[c].ops[i] \in {"create", "update"}

\* The Store after one whose Create or Update failed has returned nil after
\* its get alone, and GetInto finds a config that the ConfigMap does not hold.
C20_Witness ==
  /\ st["api"].again /\ st["api"].eq
  /\ st["api"].ret = "nil" /\ st["api"].ops = <<"get">>
  /\ GetInto("w1", "ns1").found
  /\ ~Has(remote["ns1"].data, "w1")
  /\ feed["ns1"].h = 0 /\ feed["ns1"].q = <<>>

====
